---- MODULE Spec2Model ----
(***************************************************************************)
(* Model of the volume control facade of src/src/mcpserver/deployment.py:  *)
(* class VolumeController wrapping one IAudioEndpointVolume handle, with   *)
(* its five operations get_volume, set_volume, mute, unmute, toggle_mute.  *)
(*                                                                         *)
(* Python floats are IEEE-754 binary64 values.  They are modelled exactly: *)
(* a float is a sign, a 53-bit significand (a sequence of 15-bit limbs,    *)
(* most significant first) and a binary exponent, and division,            *)
(* multiplication and round() are computed with round-half-to-even.        *)
(***************************************************************************)
EXTENDS Integers, Sequences, FiniteSets, TLC

\* ------------------------------------------------------------------------
\* Natural numbers as sequences of limbs (most significant limb first)
\* ------------------------------------------------------------------------

\* Width of the significand of a Python float (binary64).
Precision == 53

\* Bits per limb; a limb times a small factor stays a machine integer.
LimbBits == 15

\* Extra quotient bits kept by a division so that guard and sticky exist.
DivPad == 12

RECURSIVE Pow2(_)
Pow2(n) == IF n = 0 THEN 1 ELSE 2 * Pow2(n - 1)

Base == Pow2(LimbBits)

ZeroLimbs(n) == [i \in 1..n |-> 0]

RECURSIVE Strip(_)
Strip(b) == IF b # <<>> /\ b[1] = 0 THEN Strip(Tail(b)) ELSE b

RECURSIVE NatToLimbs(_)
NatToLimbs(n) ==
    IF n = 0 THEN <<>> ELSE NatToLimbs(n \div Base) \o <<n % Base>>

\* Only applied to numbers below 2^31.
RECURSIVE LimbsToNat(_)
LimbsToNat(b) ==
    IF b = <<>> THEN 0
    ELSE Base * LimbsToNat(SubSeq(b, 1, Len(b) - 1)) + b[Len(b)]

RECURSIVE BitLenNat(_)
BitLenNat(n) == IF n = 0 THEN 0 ELSE 1 + BitLenNat(n \div 2)

BitLen(b) ==
    LET s == Strip(b)
    IN  IF s = <<>> THEN 0 ELSE LimbBits * (Len(s) - 1) + BitLenNat(s[1])

IsOdd(b) == b # <<>> /\ b[Len(b)] % 2 = 1

NonZero(b) == \E i \in 1..Len(b) : b[i] # 0

\* b * c + carry for a small factor c, from the least significant limb.
RECURSIVE MulAdd(_, _, _)
MulAdd(b, c, carry) ==
    IF b = <<>> THEN NatToLimbs(carry)
    ELSE LET t == b[Len(b)] * c + carry
         IN  MulAdd(SubSeq(b, 1, Len(b) - 1), c, t \div Base) \o <<t % Base>>

\* Long division of b by a small divisor d: quotient limbs and remainder.
RECURSIVE DivRem(_, _, _)
DivRem(b, d, r) ==
    IF b = <<>> THEN [q |-> <<>>, r |-> r]
    ELSE LET t    == Base * r + b[1]
             rest == DivRem(Tail(b), d, t % d)
         IN  [q |-> <<t \div d>> \o rest.q, r |-> rest.r]

\* b * 2^s
ShiftLeft(b, s) ==
    Strip(MulAdd(b \o ZeroLimbs(s \div LimbBits), Pow2(s % LimbBits), 0))

\* floor(b / 2^s), and whether any of the bits shifted out was set.
ShiftRight(b, s) ==
    LET n     == Len(b)
        limbs == s \div LimbBits
    IN  IF limbs >= n THEN [q |-> <<>>, sticky |-> NonZero(b)]
        ELSE LET dr == DivRem(SubSeq(b, 1, n - limbs), Pow2(s % LimbBits), 0)
             IN  [q      |-> Strip(dr.q),
                  sticky |-> dr.r # 0 \/ NonZero(SubSeq(b, n - limbs + 1, n))]

\* (b + sticky) / 2^s rounded to the nearest integer, ties to even (s >= 1).
RoundHalfEven(b, sticky, s) ==
    LET h     == ShiftRight(b, s - 1)
        guard == IsOdd(h.q)
        q     == ShiftRight(h.q, 1).q
        up    == guard /\ (h.sticky \/ sticky \/ IsOdd(q))
    IN  IF up THEN Strip(MulAdd(q, 1, 1)) ELSE q

\* ------------------------------------------------------------------------
\* binary64 values
\* ------------------------------------------------------------------------

FloatZero == [neg |-> FALSE, m |-> <<>>, e |-> 0]

\* The float nearest to (-1)^neg * (b + sticky) * 2^e, ties to even.
RoundToPrec(neg, b, sticky, e) ==
    LET n == BitLen(b)
    IN  IF n = 0 THEN FloatZero
        ELSE IF n <= Precision
        THEN [neg |-> neg, m |-> ShiftLeft(Strip(b), Precision - n),
              e |-> e - (Precision - n)]
        ELSE LET m == RoundHalfEven(Strip(b), sticky, n - Precision)
             IN  IF BitLen(m) > Precision
                 THEN [neg |-> neg, m |-> ShiftRight(m, 1).q,
                       e |-> e + (n - Precision) + 1]
                 ELSE [neg |-> neg, m |-> m, e |-> e + (n - Precision)]

\* The float denoted by the decimal literal k/d (k an integer, d a power of
\* ten): Python's correctly rounded string-to-float conversion.
Literal(k, d) ==
    LET a  == IF k < 0 THEN -k ELSE k
        qr == DivRem(ShiftLeft(NatToLimbs(a), Precision + DivPad), d, 0)
    IN  RoundToPrec(k < 0, qr.q, qr.r # 0, -(Precision + DivPad))

\* x / d in float arithmetic, d a small positive integer held exactly.
FloatDiv(x, d) ==
    LET qr == DivRem(ShiftLeft(x.m, DivPad), d, 0)
    IN  RoundToPrec(x.neg, qr.q, qr.r # 0, x.e - DivPad)

\* x * c in float arithmetic, c a small positive integer held exactly.
FloatMul(x, c) == RoundToPrec(x.neg, MulAdd(x.m, c, 0), FALSE, x.e)

\* a <= b for limb sequences of equal length.
RECURSIVE LimbsLeq(_, _)
LimbsLeq(a, b) ==
    \/ a = <<>>
    \/ a[1] < b[1]
    \/ a[1] = b[1] /\ LimbsLeq(Tail(a), Tail(b))

\* |x| <= |y|
MagLeq(x, y) ==
    \/ x.m = <<>>
    \/ /\ y.m # <<>>
       /\ \/ x.e < y.e
          \/ x.e = y.e /\ LimbsLeq(x.m, y.m)

\* x <= y on floats.
FloatLeq(x, y) ==
    IF x.neg /\ ~y.neg THEN TRUE
    ELSE IF ~x.neg /\ y.neg THEN x.m = <<>> /\ y.m = <<>>
    ELSE IF x.neg THEN MagLeq(y, x)
    ELSE MagLeq(x, y)

RECURSIVE Pow10(_)
Pow10(n) == IF n = 0 THEN 1 ELSE 10 * Pow10(n - 1)

\* Python's round(x, ndigits) for a float x below 2^52 in magnitude.  The
\* result is the float nearest to n / 10^ndigits for an integer n; the
\* operator yields n.  The exact binary value of x is rounded, ties going
\* to the even n.
Round(x, ndigits) ==
    IF x.m = <<>> THEN 0
    ELSE LET t   == Strip(MulAdd(x.m, Pow10(ndigits), 0))
             mag == LimbsToNat(RoundHalfEven(t, FALSE, -x.e))
         IN  IF x.neg THEN -mag ELSE mag

\* ------------------------------------------------------------------------
\* Inputs
\* ------------------------------------------------------------------------

\* Whole percentages 0..MaxWhole are among the arguments of set_volume.
MaxWhole == 1

\* Arguments of set_volume in hundredths of a percent: both sides of each
\* end of the range, a value between two tenths, and whole percentages.
PercentInputs == {-1, 85, 10000, 10001} \cup {100 * w : w \in 0..MaxWhole}

Percentages == {Literal(k, 100) : k \in PercentInputs}

\* str(e) of the failures the endpoint can raise.
FailureMessages == {"device invalidated", "access denied"}

\* What the endpoint does during an operation that makes up to n calls of
\* it.  at = 0: no call raises; at = k: the k-th call raises msg.
Failures(n) == {[at |-> 0, msg |-> "none"]} \cup [at : 1..n, msg : FailureMessages]

\* ------------------------------------------------------------------------
\* State
\* ------------------------------------------------------------------------

VARIABLES
    _volume,    \* VolumeController._volume: None or the endpoint interface
    acquired,   \* number of runs of _initialize_audio
    ep_scalar,  \* endpoint: master volume scalar, a float in 0.0 .. 1.0
    ep_db,      \* endpoint: master volume level in decibels, a float
    ep_mute,    \* endpoint: mute flag, 0 or 1
    last,       \* the most recent facade call and what it returned
    prev        \* the facade call before that

vars == <<_volume, acquired, ep_scalar, ep_db, ep_mute, last, prev>>

None == "None"

IAudioEndpointVolume == "IAudioEndpointVolume"

NotInitialized == "Audio interface not initialized"

OutOfRange == "Volume percentage must be between 0 and 100"

NoCall ==
    [op |-> "none", arg |-> <<>>, pre |-> [scalar |-> FloatZero, mute |-> 0],
     calls |-> <<>>, result |-> [status |-> "none"], escaped |-> FALSE]

\* Construction (__init__ and _initialize_audio): the endpoint is acquired
\* once; when that fails the exception is re-raised and _volume stays None.
Init ==
    /\ _volume \in {None, IAudioEndpointVolume}
    /\ acquired = 1
    /\ ep_scalar \in {Literal(57, 100)}
    /\ ep_db = Literal(-12345, 1000)
    /\ ep_mute \in {0, 1}
    /\ last = NoCall
    /\ prev = NoCall

\* ------------------------------------------------------------------------
\* The try blocks.  Each yields what the block did: the endpoint calls it
\* made, the endpoint's state afterwards, and either the dict it returned
\* or the exception it raised.
\* ------------------------------------------------------------------------

\* An endpoint call: raises is the message of the failure it raised, or Ok.
Ok == ""

Call(fn, args, raises) == [fn |-> fn, args |-> args, raises |-> raises]

Returned(calls, scalar, mute, ret) ==
    [calls |-> calls, scalar |-> scalar, mute |-> mute,
     raised |-> FALSE, exc |-> [type |-> "none", msg |-> ""], ret |-> ret]

Raised(calls, scalar, mute, type, msg) ==
    [calls |-> calls, scalar |-> scalar, mute |-> mute,
     raised |-> TRUE, exc |-> [type |-> type, msg |-> msg],
     ret |-> [status |-> "none"]]

\* bool(x) and "not x" of an endpoint BOOL
Bool(x) == x # 0

Not(x) == x = 0

Uninitialized_never == FALSE

\* not self._volume
Uninitialized == _volume = None

Hundred == Literal(100, 1)

InRange_upper_only(percentage) == FloatLeq(percentage, Hundred)

\* 0 <= percentage <= 100
InRange(percentage) ==
    FloatLeq(FloatZero, percentage) /\ FloatLeq(percentage, Hundred)

\* percentage / 100.0
ToScalar(percentage) == FloatDiv(percentage, 100)

ToPercentage_whole(scalar) == 10 * Round(FloatMul(scalar, 100), 0)

\* round(scalar * 100, 1), in tenths of a percent
ToPercentage(scalar) == Round(FloatMul(scalar, 100), 1)

get_volume_try(f) ==
    IF Uninitialized
    THEN Raised(<<>>, ep_scalar, ep_mute, "RuntimeError", NotInitialized)
    ELSE LET c1(r) == Call("GetMasterVolumeLevelScalar", <<>>, r)
             c2(r) == Call("GetMasterVolumeLevel", <<>>, r)
             c3(r) == Call("GetMute", <<>>, r)
         IN  IF f.at = 1
             THEN Raised(<<c1(f.msg)>>, ep_scalar, ep_mute, "COMError", f.msg)
             ELSE IF f.at = 2
             THEN Raised(<<c1(Ok), c2(f.msg)>>, ep_scalar, ep_mute,
                         "COMError", f.msg)
             ELSE IF f.at = 3
             THEN Raised(<<c1(Ok), c2(Ok), c3(f.msg)>>, ep_scalar,
                         ep_mute, "COMError", f.msg)
             ELSE Returned(<<c1(Ok), c2(Ok), c3(Ok)>>, ep_scalar,
                           ep_mute,
                           [volume_percentage |-> ToPercentage(ep_scalar),
                            volume_scalar     |-> ep_scalar,
                            volume_db         |-> Round(ep_db, 2),
                            is_muted          |-> Bool(ep_mute),
                            status            |-> "success"])

\* set_volume with the range check made after the write instead of before.
set_volume_try_late_check(percentage, f) ==
    IF Uninitialized
    THEN Raised(<<>>, ep_scalar, ep_mute, "RuntimeError", NotInitialized)
    ELSE LET volume_scalar == ToScalar(percentage)
             c1(r) == Call("SetMasterVolumeLevelScalar", <<volume_scalar>>, r)
             c2(r) == Call("GetMasterVolumeLevelScalar", <<>>, r)
             actual_volume == volume_scalar
         IN  IF f.at = 1
             THEN Raised(<<c1(f.msg)>>, ep_scalar, ep_mute, "COMError", f.msg)
             ELSE IF ~InRange(percentage)
             THEN Raised(<<c1(Ok)>>, actual_volume, ep_mute, "ValueError",
                         OutOfRange)
             ELSE IF f.at = 2
             THEN Raised(<<c1(Ok), c2(f.msg)>>, actual_volume, ep_mute,
                         "COMError", f.msg)
             ELSE Returned(<<c1(Ok), c2(Ok)>>, actual_volume, ep_mute,
                           [requested_percentage |-> percentage,
                            actual_percentage    |-> ToPercentage(actual_volume),
                            volume_scalar        |-> actual_volume,
                            status               |-> "success"])

set_volume_try(percentage, f) ==
    IF Uninitialized
    THEN Raised(<<>>, ep_scalar, ep_mute, "RuntimeError", NotInitialized)
    ELSE IF ~InRange(percentage)
    THEN Raised(<<>>, ep_scalar, ep_mute, "ValueError", OutOfRange)
    ELSE LET volume_scalar == ToScalar(percentage)
             c1(r) == Call("SetMasterVolumeLevelScalar", <<volume_scalar>>, r)
             c2(r) == Call("GetMasterVolumeLevelScalar", <<>>, r)
             \* the endpoint stores the scalar it is given
             actual_volume == volume_scalar
         IN  IF f.at = 1
             THEN Raised(<<c1(f.msg)>>, ep_scalar, ep_mute, "COMError", f.msg)
             ELSE IF f.at = 2
             THEN Raised(<<c1(Ok), c2(f.msg)>>, actual_volume, ep_mute,
                         "COMError", f.msg)
             ELSE Returned(<<c1(Ok), c2(Ok)>>, actual_volume, ep_mute,
                           [requested_percentage |-> percentage,
                            actual_percentage    |-> ToPercentage(actual_volume),
                            volume_scalar        |-> actual_volume,
                            status               |-> "success"])

\* mute without the early return for an endpoint that is muted already.
mute_try_always_writes(f) ==
    IF Uninitialized
    THEN Raised(<<>>, ep_scalar, ep_mute, "RuntimeError", NotInitialized)
    ELSE LET c1(r) == Call("GetMute", <<>>, r)
             c2(r) == Call("SetMute", <<1>>, r)
         IN  IF f.at = 1
             THEN Raised(<<c1(f.msg)>>, ep_scalar, ep_mute, "COMError", f.msg)
             ELSE IF f.at = 2
             THEN Raised(<<c1(Ok), c2(f.msg)>>, ep_scalar, ep_mute,
                         "COMError", f.msg)
             ELSE Returned(<<c1(Ok), c2(Ok)>>, ep_scalar, 1,
                           [message   |-> "System muted successfully",
                            was_muted |-> Bool(ep_mute),
                            is_muted  |-> TRUE,
                            status    |-> "success"])

mute_try(f) ==
    IF Uninitialized
    THEN Raised(<<>>, ep_scalar, ep_mute, "RuntimeError", NotInitialized)
    ELSE LET c1(r) == Call("GetMute", <<>>, r)
             c2(r) == Call("SetMute", <<1>>, r)
             was_muted == ep_mute
         IN  IF f.at = 1
             THEN Raised(<<c1(f.msg)>>, ep_scalar, ep_mute, "COMError", f.msg)
             ELSE IF Bool(was_muted)
             THEN Returned(<<c1(Ok)>>, ep_scalar, ep_mute,
                           [message   |-> "System was already muted",
                            was_muted |-> TRUE,
                            is_muted  |-> TRUE,
                            status    |-> "success"])
             ELSE IF f.at = 2
             THEN Raised(<<c1(Ok), c2(f.msg)>>, ep_scalar, ep_mute,
                         "COMError", f.msg)
             ELSE Returned(<<c1(Ok), c2(Ok)>>, ep_scalar, 1,
                           [message   |-> "System muted successfully",
                            was_muted |-> FALSE,
                            is_muted  |-> TRUE,
                            status    |-> "success"])

\* unmute without the early return for an endpoint that is unmuted already.
unmute_try_always_writes(f) ==
    IF Uninitialized
    THEN Raised(<<>>, ep_scalar, ep_mute, "RuntimeError", NotInitialized)
    ELSE LET c1(r) == Call("GetMute", <<>>, r)
             c2(r) == Call("SetMute", <<0>>, r)
         IN  IF f.at = 1
             THEN Raised(<<c1(f.msg)>>, ep_scalar, ep_mute, "COMError", f.msg)
             ELSE IF f.at = 2
             THEN Raised(<<c1(Ok), c2(f.msg)>>, ep_scalar, ep_mute,
                         "COMError", f.msg)
             ELSE Returned(<<c1(Ok), c2(Ok)>>, ep_scalar, 0,
                           [message   |-> "System unmuted successfully",
                            was_muted |-> Bool(ep_mute),
                            is_muted  |-> FALSE,
                            status    |-> "success"])

unmute_try(f) ==
    IF Uninitialized
    THEN Raised(<<>>, ep_scalar, ep_mute, "RuntimeError", NotInitialized)
    ELSE LET c1(r) == Call("GetMute", <<>>, r)
             c2(r) == Call("SetMute", <<0>>, r)
             was_muted == ep_mute
         IN  IF f.at = 1
             THEN Raised(<<c1(f.msg)>>, ep_scalar, ep_mute, "COMError", f.msg)
             ELSE IF Not(was_muted)
             THEN Returned(<<c1(Ok)>>, ep_scalar, ep_mute,
                           [message   |-> "System was already unmuted",
                            was_muted |-> FALSE,
                            is_muted  |-> FALSE,
                            status    |-> "success"])
             ELSE IF f.at = 2
             THEN Raised(<<c1(Ok), c2(f.msg)>>, ep_scalar, ep_mute,
                         "COMError", f.msg)
             ELSE Returned(<<c1(Ok), c2(Ok)>>, ep_scalar, 0,
                           [message   |-> "System unmuted successfully",
                            was_muted |-> TRUE,
                            is_muted  |-> FALSE,
                            status    |-> "success"])

\* toggle_mute reporting the flag it read as the new state.
toggle_mute_try_stale_report(f) ==
    IF Uninitialized
    THEN Raised(<<>>, ep_scalar, ep_mute, "RuntimeError", NotInitialized)
    ELSE LET current_mute == ep_mute
             new_mute == Not(current_mute)
             flag     == IF new_mute THEN 1 ELSE 0
             action   == IF Bool(current_mute) THEN "muted" ELSE "unmuted"
             c1(r) == Call("GetMute", <<>>, r)
             c2(r) == Call("SetMute", <<flag>>, r)
         IN  IF f.at = 1
             THEN Raised(<<c1(f.msg)>>, ep_scalar, ep_mute, "COMError", f.msg)
             ELSE IF f.at = 2
             THEN Raised(<<c1(Ok), c2(f.msg)>>, ep_scalar, ep_mute,
                         "COMError", f.msg)
             ELSE Returned(<<c1(Ok), c2(Ok)>>, ep_scalar, flag,
                           [message   |-> "System toggled successfully",
                            was_muted |-> Bool(current_mute),
                            is_muted  |-> Bool(current_mute),
                            action    |-> action,
                            status    |-> "success"])

\* toggle_mute that skips the write when the endpoint is muted already.
toggle_mute_try_short_circuit(f) ==
    IF Uninitialized
    THEN Raised(<<>>, ep_scalar, ep_mute, "RuntimeError", NotInitialized)
    ELSE LET current_mute == ep_mute
             c1(r) == Call("GetMute", <<>>, r)
             c2(r) == Call("SetMute", <<1>>, r)
         IN  IF f.at = 1
             THEN Raised(<<c1(f.msg)>>, ep_scalar, ep_mute, "COMError", f.msg)
             ELSE IF Bool(current_mute)
             THEN Returned(<<c1(Ok)>>, ep_scalar, ep_mute,
                           [message   |-> "System muted successfully",
                            was_muted |-> TRUE,
                            is_muted  |-> TRUE,
                            action    |-> "muted",
                            status    |-> "success"])
             ELSE IF f.at = 2
             THEN Raised(<<c1(Ok), c2(f.msg)>>, ep_scalar, ep_mute,
                         "COMError", f.msg)
             ELSE Returned(<<c1(Ok), c2(Ok)>>, ep_scalar, 1,
                           [message   |-> "System muted successfully",
                            was_muted |-> FALSE,
                            is_muted  |-> TRUE,
                            action    |-> "muted",
                            status    |-> "success"])

toggle_mute_try(f) ==
    IF Uninitialized
    THEN Raised(<<>>, ep_scalar, ep_mute, "RuntimeError", NotInitialized)
    ELSE LET current_mute == ep_mute
             new_mute == Not(current_mute)
             flag     == IF new_mute THEN 1 ELSE 0
             action   == IF new_mute THEN "muted" ELSE "unmuted"
             c1(r) == Call("GetMute", <<>>, r)
             c2(r) == Call("SetMute", <<flag>>, r)
         IN  IF f.at = 1
             THEN Raised(<<c1(f.msg)>>, ep_scalar, ep_mute, "COMError", f.msg)
             ELSE IF f.at = 2
             THEN Raised(<<c1(Ok), c2(f.msg)>>, ep_scalar, ep_mute,
                         "COMError", f.msg)
             ELSE Returned(<<c1(Ok), c2(Ok)>>, ep_scalar, flag,
                           [message   |-> IF new_mute
                                          THEN "System muted successfully"
                                          ELSE "System unmuted successfully",
                            was_muted |-> Bool(current_mute),
                            is_muted  |-> new_mute,
                            action    |-> action,
                            status    |-> "success"])

\* ------------------------------------------------------------------------
\* The except clauses and the five operations
\* ------------------------------------------------------------------------

\* Classes that "except Exception" catches.
ExceptionClasses == {"RuntimeError", "ValueError", "COMError"}

\* An except clause that reports a fixed message instead of str(e).
Catch_fixed_message(b) ==
    IF ~b.raised THEN [result |-> b.ret, escaped |-> FALSE]
    ELSE [result |-> [error |-> "Operation failed", status |-> "error"],
          escaped |-> FALSE]

\* An except clause whose dict also carries a success field.
Catch_with_message(b) ==
    IF ~b.raised THEN [result |-> b.ret, escaped |-> FALSE]
    ELSE [result |-> [error |-> b.exc.msg, message |-> "Operation failed",
                      status |-> "error"],
          escaped |-> FALSE]

\* try: ... except Exception as e: return {"error": str(e), "status": "error"}
Catch(b) ==
    IF ~b.raised THEN [result |-> b.ret, escaped |-> FALSE]
    ELSE IF b.exc.type \in ExceptionClasses
    THEN [result |-> [error |-> b.exc.msg, status |-> "error"],
          escaped |-> FALSE]
    ELSE [result |-> [status |-> "none"], escaped |-> TRUE]

\* One facade call: the endpoint takes the state the try block left it in,
\* and the call is recorded with what it returned.
Finish(op, arg, b) ==
    LET c == Catch(b)
    IN  /\ ep_scalar' = b.scalar
        /\ ep_mute' = b.mute
        /\ last' = [op |-> op, arg |-> arg,
                    pre |-> [scalar |-> ep_scalar, mute |-> ep_mute],
                    calls |-> b.calls,
                    result |-> c.result, escaped |-> c.escaped]
        /\ prev' = last
        /\ UNCHANGED <<_volume, acquired, ep_db>>

get_volume == \E f \in Failures(3) : Finish("get_volume", <<>>, get_volume_try(f))

set_volume ==
    \E percentage \in Percentages, f \in Failures(2) :
        Finish("set_volume", <<percentage>>, set_volume_try(percentage, f))

mute == \E f \in Failures(2) : Finish("mute", <<>>, mute_try(f))

unmute == \E f \in Failures(2) : Finish("unmute", <<>>, unmute_try(f))

toggle_mute == \E f \in Failures(2) : Finish("toggle_mute", <<>>, toggle_mute_try(f))

Next == get_volume \/ set_volume \/ mute \/ unmute \/ toggle_mute

Spec == Init /\ [][Next]_vars

\* ------------------------------------------------------------------------
\* Properties
\* ------------------------------------------------------------------------

Ready == _volume # None

\* No endpoint call of the recorded facade call raised.
NoFailure(c) == \A i \in 1..Len(c.calls) : c.calls[i].raises = Ok

\* The endpoint calls of the recorded facade call that write.
Writes(c) ==
    {i \in 1..Len(c.calls) :
        c.calls[i].fn \in {"SetMute", "SetMasterVolumeLevelScalar"}}

IsSuccess(c) == c.result.status = "success"

IsError(c) == c.result.status = "error"

\* The arguments below 0 or above 100, and those from 0 to 100.
BadPercentages == {Literal(k, 100) : k \in {j \in PercentInputs : j < 0 \/ j > 10000}}

GoodPercentages == {Literal(k, 100) : k \in {j \in PercentInputs : j >= 0 /\ j <= 10000}}

\* Two successive calls of the same operation, op, on an initialized facade
\* with no endpoint failure in either.
Twice(op) ==
    /\ Ready
    /\ prev.op = op /\ last.op = op
    /\ NoFailure(prev) /\ NoFailure(last)

\* C1: on an initialized facade, set_volume(p) with p < 0 or p > 100 returns
\* the error "Volume percentage must be between 0 and 100", makes no
\* set-scalar call and leaves the endpoint's volume as it was, and a
\* get_volume right after it reports the volume of before the call.
C1_OutOfRangeRejected ==
    /\ (Ready /\ last.op = "set_volume" /\ last.arg[1] \in BadPercentages)
         => /\ IsError(last)
            /\ last.result.error = OutOfRange
            /\ Writes(last) = {}
            /\ ep_scalar = last.pre.scalar
    /\ (Ready /\ prev.op = "set_volume" /\ prev.arg[1] \in BadPercentages
          /\ last.op = "get_volume" /\ IsSuccess(last))
         => /\ last.result.volume_scalar = prev.pre.scalar
            /\ last.result.volume_percentage
                 = Round(FloatMul(prev.pre.scalar, 100), 1)

C1_Witness ==
    /\ Ready
    /\ prev.op = "set_volume" /\ prev.arg[1] = Literal(10001, 100)
    /\ IsError(prev)
    /\ last.op = "get_volume" /\ IsSuccess(last)

\* C2: after a failed acquisition every call of the five operations returns
\* the error "Audio interface not initialized" without touching the
\* endpoint, and no operation acquires the endpoint again: _volume stays
\* None and _initialize_audio is never run a second time.
C2_FailedStaysFailed ==
    /\ [](( ~Ready /\ last.op # "none")
            => /\ IsError(last)
               /\ last.result.error = NotInitialized
               /\ last.calls = <<>>
               /\ acquired = 1)
    /\ [][~Ready => (_volume' = None /\ acquired' = acquired)]_vars

C2_Witness ==
    /\ ~Ready
    /\ last.op = "toggle_mute" /\ IsError(last)
    /\ prev.op = "set_volume" /\ IsError(prev)

\* C3: when an endpoint call raises, the operation that made it returns
\* the error variant carrying that failure's message, and no operation lets
\* an exception escape.
C3_FailuresBecomeErrors ==
    /\ ~last.escaped
    /\ \A i \in 1..Len(last.calls) :
          last.calls[i].raises # Ok
            => /\ IsError(last)
               /\ last.result.error = last.calls[i].raises

C3_Witness ==
    /\ last.op = "set_volume" /\ Len(last.calls) = 2
    /\ last.calls[2].raises = "access denied"
    /\ prev.op = "get_volume" /\ Len(prev.calls) = 2
    /\ prev.calls[2].raises = "device invalidated"

\* C4: two successive mute() calls from an unmuted endpoint: the first
\* returns was_muted = false, is_muted = true, the second was_muted = true,
\* is_muted = true with "System was already muted" and writes nothing, and
\* the endpoint is muted after both.
C4_MuteTwice ==
    (Twice("mute") /\ prev.pre.mute = 0)
      => /\ IsSuccess(prev)
         /\ prev.result.was_muted = FALSE /\ prev.result.is_muted = TRUE
         /\ last.pre.mute = 1
         /\ IsSuccess(last)
         /\ last.result.was_muted = TRUE /\ last.result.is_muted = TRUE
         /\ last.result.message = "System was already muted"
         /\ Writes(last) = {}
         /\ ep_mute = 1

C4_Witness == Twice("mute") /\ prev.pre.mute = 0 /\ IsSuccess(last)

\* C5: two successive unmute() calls from a muted endpoint: the first
\* returns was_muted = true, is_muted = false and clears the flag, the
\* second was_muted = false, is_muted = false and writes nothing, and the
\* endpoint is unmuted after both.
C5_UnmuteTwice ==
    (Twice("unmute") /\ prev.pre.mute = 1)
      => /\ IsSuccess(prev)
         /\ prev.result.was_muted = TRUE /\ prev.result.is_muted = FALSE
         /\ Writes(prev) # {}
         /\ last.pre.mute = 0
         /\ IsSuccess(last)
         /\ last.result.was_muted = FALSE /\ last.result.is_muted = FALSE
         /\ Writes(last) = {}
         /\ ep_mute = 0

C5_Witness == Twice("unmute") /\ prev.pre.mute = 1 /\ IsSuccess(last)

\* C6: two successive toggle_mute() calls leave the mute flag at its
\* original value and report opposite actions, each call with is_muted the
\* negation of its was_muted.
C6_ToggleTwice ==
    Twice("toggle_mute")
      => /\ IsSuccess(prev) /\ IsSuccess(last)
         /\ ep_mute = prev.pre.mute
         /\ <<prev.result.action, last.result.action>>
              \in {<<"muted", "unmuted">>, <<"unmuted", "muted">>}
         /\ prev.result.is_muted = ~prev.result.was_muted
         /\ last.result.is_muted = ~last.result.was_muted

C6_Witness ==
    /\ Twice("toggle_mute")
    /\ prev.pre.mute = 1
    /\ last.result.action = "muted"

\* set_volume(p) for p in 0..100 followed at once by get_volume, neither
\* with an endpoint failure.
SetThenGet ==
    /\ Ready
    /\ prev.op = "set_volume" /\ prev.arg[1] \in GoodPercentages
    /\ NoFailure(prev)
    /\ last.op = "get_volume" /\ NoFailure(last)

\* C7 as stated: set_volume(p) for 0 <= p <= 100 returns success with
\* requested_percentage = p and actual_percentage = round(p, 1), and the
\* get_volume after it returns volume_percentage = round(p, 1).
C7_AsStated ==
    SetThenGet
      => /\ IsSuccess(prev) /\ IsSuccess(last)
         /\ prev.result.requested_percentage = prev.arg[1]
         /\ prev.result.actual_percentage = Round(prev.arg[1], 1)
         /\ last.result.volume_percentage = Round(prev.arg[1], 1)

Abs(n) == IF n < 0 THEN -n ELSE n

\* C7 amended: set_volume(p) for 0 <= p <= 100 returns success with
\* requested_percentage = p and actual_percentage = round((p / 100.0) * 100, 1)
\* in float arithmetic, the get_volume after it returns that same value as
\* volume_percentage, and the value is round(p, 1) or one tenth off it.
C7_RoundTrip ==
    SetThenGet
      => /\ IsSuccess(prev) /\ IsSuccess(last)
         /\ prev.result.requested_percentage = prev.arg[1]
         /\ prev.result.actual_percentage
              = Round(FloatMul(FloatDiv(prev.arg[1], 100), 100), 1)
         /\ last.result.volume_percentage = prev.result.actual_percentage
         /\ Abs(prev.result.actual_percentage - Round(prev.arg[1], 1)) <= 1

C7_Witness ==
    /\ SetThenGet
    /\ prev.arg[1] = Literal(85, 100)
    /\ last.result.volume_percentage = 9

\* The keys of each operation's success dict.
SuccessFields(op) ==
    IF op = "get_volume"
    THEN {"volume_percentage", "volume_scalar", "volume_db", "is_muted", "status"}
    ELSE IF op = "set_volume"
    THEN {"requested_percentage", "actual_percentage", "volume_scalar", "status"}
    ELSE IF op = "toggle_mute"
    THEN {"message", "was_muted", "is_muted", "action", "status"}
    ELSE {"message", "was_muted", "is_muted", "status"}

\* C8: every result has exactly one variant populated: tagged success it
\* has the operation's success fields and no error message, tagged error it
\* has the error message and no success field.
C8_OneVariant ==
    \A c \in {prev, last} :
       c.op # "none"
         => \/ IsSuccess(c) /\ DOMAIN c.result = SuccessFields(c.op)
            \/ IsError(c) /\ DOMAIN c.result = {"error", "status"}

C8_Witness ==
    /\ last.op = "set_volume" /\ IsError(last)
    /\ prev.op = "toggle_mute" /\ IsSuccess(prev)

\* C9: a toggle_mute() call on an initialized facade whose read of the mute
\* flag succeeds issues exactly one set-mute write, after the read, with the
\* negation of the value read, whatever the mute state.
C9_ToggleAlwaysWrites ==
    (Ready /\ last.op = "toggle_mute"
       /\ Len(last.calls) >= 1 /\ last.calls[1].raises = Ok)
      => /\ last.calls[1].fn = "GetMute"
         /\ Writes(last) = {2}
         /\ Len(last.calls) = 2
         /\ last.calls[2].fn = "SetMute"
         /\ last.calls[2].args = <<IF last.pre.mute = 0 THEN 1 ELSE 0>>

C9_Witness ==
    /\ Ready
    /\ prev.op = "toggle_mute" /\ prev.pre.mute = 1 /\ IsSuccess(prev)
    /\ last.op = "toggle_mute" /\ last.pre.mute = 0 /\ IsSuccess(last)

\* C10 as stated: whenever set_volume returns the error variant, the
\* endpoint's scalar volume is what it was before the call.
C10_AsStated ==
    (last.op = "set_volume" /\ IsError(last)) => ep_scalar = last.pre.scalar

\* The set-scalar write of the recorded set_volume call was made and
\* returned normally.
WriteDone(c) ==
    /\ Len(c.calls) >= 1
    /\ c.calls[1].fn = "SetMasterVolumeLevelScalar"
    /\ c.calls[1].raises = Ok

\* C10 amended: when set_volume returns the error variant because the
\* facade is not initialized, the argument is out of range or the set-scalar
\* call raised, the endpoint's scalar volume is what it was before the call;
\* when the set-scalar call returned and the re-read raised, set_volume
\* returns the error variant and the endpoint's volume is the scalar written.
C10_ErrorKeepsVolumeUnlessWritten ==
    (last.op = "set_volume" /\ IsError(last))
      => /\ ~WriteDone(last) => ep_scalar = last.pre.scalar
         /\ WriteDone(last)
              => /\ Len(last.calls) = 2
                 /\ last.calls[2].fn = "GetMasterVolumeLevelScalar"
                 /\ last.calls[2].raises # Ok
                 /\ ep_scalar = last.calls[1].args[1]
                 /\ ep_scalar = FloatDiv(last.arg[1], 100)

C10_Witness ==
    /\ last.op = "set_volume" /\ IsError(last)
    /\ WriteDone(last)
    /\ ep_scalar # last.pre.scalar

====
